---- MODULE Spec2Model ----
(***************************************************************************)
(* A model of please-mcp's OAuthManager (oauth.ts): metadata discovery,    *)
(* client registration, the callback listener of the authorization-code    *)
(* flow, token exchange and refresh, and the session file.                  *)
(*                                                                         *)
(* Time is Date.now() in milliseconds.  An undefined (or otherwise falsy)  *)
(* number or string is 0 / NoUrl / NoClient / NoTokens: the code only ever *)
(* tests these values for truthiness.                                      *)
(*                                                                         *)
(* A second part models MCPWrapper (wrapper.ts): start(), which authorizes *)
(* and connects, and the tools/list and tools/call handlers with the       *)
(* allow-list and the call statistics.                                     *)
(***************************************************************************)
EXTENDS Integers, Sequences, FiniteSets, TLC

\* ------------------------------------------------------------------ bounds
\* public calls (authorize, getAccessToken, clearSession) per behaviour
MaxCalls == 2
\* clock steps of one grace delay (1 s) and of one callback timeout (300 s)
MaxShort == 1
MaxLong == 1
\* /callback requests one listener answers before the model stops sending more
MaxCallbacks == 2
\* requests the wrapper's client sends per behaviour
MaxRequests == 2

\* ------------------------------------------------------- program constants
RefreshWindowMs == 300000
CallbackTimeoutMs == 300000
CloseGraceMs == 1000
MsPerSecond == 1000

\* ------------------------------------------------------------------ values
NoUrl == [scheme |-> "", host |-> "", path |-> <<>>]
NoClient == [client_id |-> "", client_secret |-> ""]
NoTokens == [undefined |-> TRUE]
NoSession == [kind |-> "undefined"]
NoMetadata == [kind |-> "undefined"]

\* config.serverUrl, and the client a dynamic registration returns
ServerUrl == [scheme |-> "https", host |-> "mcp.example", path |-> <<"sse">>]
StaticClient == [client_id |-> "static-id", client_secret |-> "static-secret"]
DynamicClient == [client_id |-> "dyn-id", client_secret |-> ""]

\* the expires_in values (seconds) a token endpoint answers with; 0: none
ExpiresInValues == {0, 301}

\* the instants the clock takes
StartMs == CallbackTimeoutMs
TimePoints ==
  {StartMs + s * CloseGraceMs + l * CallbackTimeoutMs : s \in 0..MaxShort, l \in 0..MaxLong}

\* ------------------------------------------------------------ pure helpers
\* a URL is its scheme, its host and the segments of its path
\* (mutant) the base keeps the path of the server URL
getAuthBaseUrl_KeepsPath(url) == url

\* getAuthBaseUrl(): `${url.protocol}//${url.host}`
getAuthBaseUrl(url) == [scheme |-> url.scheme, host |-> url.host, path |-> <<>>]

\* `${baseUrl}/${segment}`
WithPath(base, segment) == [base EXCEPT !.path = Append(@, segment)]

\* the fallback metadata of discoverMetadata()
DefaultMetadata(base) ==
  [authorization_endpoint |-> WithPath(base, "authorize"),
   token_endpoint |-> WithPath(base, "token"),
   registration_endpoint |-> WithPath(base, "register")]

\* what an authorization server may publish at the well-known path
AsUrl(p) == [scheme |-> "https", host |-> "as.example", path |-> <<"oauth", p>>]
PublishedFull ==
  [authorization_endpoint |-> AsUrl("authorize"),
   token_endpoint |-> AsUrl("token"),
   registration_endpoint |-> AsUrl("register")]
\* a document whose endpoints are plain http on a host other than localhost
PublishedInsecure ==
  [authorization_endpoint |-> [AsUrl("authorize") EXCEPT !.scheme = "http"],
   token_endpoint |-> [AsUrl("token") EXCEPT !.scheme = "http"],
   registration_endpoint |-> [AsUrl("register") EXCEPT !.scheme = "http"]]
PublishedBodies ==
  {PublishedFull,
   [PublishedFull EXCEPT !.registration_endpoint = NoUrl],
   [PublishedFull EXCEPT !.authorization_endpoint = NoUrl],
   [PublishedFull EXCEPT !.token_endpoint = NoUrl]}

\* the answers of the discovery endpoint: a network error, a non-success
\* status, a success whose body is not JSON, a success with a JSON body
DiscoveryResponses ==
  {[net |-> FALSE, ok |-> FALSE, json |-> FALSE, body |-> NoMetadata],
   [net |-> TRUE, ok |-> FALSE, json |-> TRUE, body |-> NoMetadata],
   [net |-> TRUE, ok |-> TRUE, json |-> FALSE, body |-> NoMetadata]}
  \cup {[net |-> TRUE, ok |-> TRUE, json |-> TRUE, body |-> b] : b \in PublishedBodies}

\* an answer that is a discovery failure: a network error, a non-success
\* status, a body that does not parse
DiscoveryFailed(r) == ~r.net \/ ~r.ok \/ ~r.json

\* discoverMetadata(): the value it returns (and stores in this.metadata)
discoverMetadata(base, r) ==
  IF r.net /\ r.ok /\ r.json THEN r.body ELSE DefaultMetadata(base)

\* a token endpoint's success body issuing token number n
TokenBodies(n) ==
  {[access_token |-> n, expires_in |-> e, refresh_token |-> rt] :
     e \in ExpiresInValues, rt \in {0, n}}

\* the answers of the token endpoint (code exchange and refresh alike)
TokenResponses(n) ==
  {[net |-> FALSE, ok |-> FALSE, body |-> NoTokens, text |-> ""],
   [net |-> TRUE, ok |-> FALSE, body |-> NoTokens, text |-> "invalid_grant"]}
  \cup {[net |-> TRUE, ok |-> TRUE, body |-> b, text |-> ""] : b \in TokenBodies(n)}

\* the answers of the registration endpoint
RegistrationResponses ==
  {[net |-> FALSE, ok |-> FALSE, body |-> NoClient, text |-> ""],
   [net |-> TRUE, ok |-> FALSE, body |-> NoClient, text |-> "invalid_redirect_uri"],
   [net |-> TRUE, ok |-> TRUE, body |-> DynamicClient, text |-> ""]}

\* (mutant) the expiry is the token's lifetime, not counted from the current time
ExpiresAt_Lifetime(tokens, t) ==
  IF tokens.expires_in # 0 THEN tokens.expires_in * MsPerSecond ELSE 0

\* (mutant) a missing expires_in counts as a lifetime of zero
ExpiresAt_ZeroIsNow(tokens, t) == t + tokens.expires_in * MsPerSecond

\* expires_in ? Date.now() + expires_in * 1000 : undefined
ExpiresAt(tokens, t) ==
  IF tokens.expires_in # 0 THEN t + tokens.expires_in * MsPerSecond ELSE 0

\* an OAuthSession object
Session(ci, tokens, exp) ==
  [kind |-> "session", clientInfo |-> ci, tokens |-> tokens, expiresAt |-> exp]

\* ------------------------------------------------------------ session file
Absent == [kind |-> "absent"]
Garbage == [kind |-> "garbage"]

\* JSON.stringify(session): the members that are defined
ToJSON(s) == [clientInfo |-> s.clientInfo, tokens |-> s.tokens, expiresAt |-> s.expiresAt]
FileOf(s) == [kind |-> "json", value |-> ToJSON(s)]

\* JSON.parse(content) as OAuthSession
ParseJSON(file) == Session(file.value.clientInfo, file.value.tokens, file.value.expiresAt)

\* (mutant) a record is discarded already when its expiry is within the refresh window
loadSession_DiscardsEarly(file, t) ==
  IF file.kind # "json" THEN NoSession
  ELSE LET s == ParseJSON(file) IN
       IF s.expiresAt # 0 /\ t >= s.expiresAt - RefreshWindowMs THEN NoSession ELSE s

\* (mutant) a record is still returned at the instant of its expiry
loadSession_KeepsAtExpiry(file, t) ==
  IF file.kind # "json" THEN NoSession
  ELSE LET s == ParseJSON(file) IN
       IF s.expiresAt # 0 /\ t > s.expiresAt THEN NoSession ELSE s

\* loadSession(): the session, or undefined
loadSession(file, t) ==
  IF file.kind # "json" THEN NoSession
  ELSE LET s == ParseJSON(file) IN
       IF s.expiresAt # 0 /\ t >= s.expiresAt THEN NoSession ELSE s

\* the token set of an earlier run, and the records a session file may hold
\* when the manager is constructed
OldTokens == [access_token |-> 1, expires_in |-> 301, refresh_token |-> 1]
OldSession == Session(DynamicClient, OldTokens, StartMs + 301 * MsPerSecond)
InitFiles ==
  {Absent, Garbage,
   FileOf(OldSession),
   FileOf([OldSession EXCEPT !.expiresAt = 0]),
   FileOf([OldSession EXCEPT !.clientInfo = NoClient]),
   FileOf([OldSession EXCEPT !.tokens = NoTokens]),
   FileOf([OldSession EXCEPT !.tokens.access_token = 0, !.expiresAt = 0])}

HasTokens(s) == s.tokens # NoTokens

\* ------------------------------------------------------------------ errors
Err(msg, detail) == [msg |-> msg, detail |-> detail]
ErrRegistration == Err("OAuth client registration failed and no static client info provided", "")
ErrRegistrationUnsupported == Err("Dynamic client registration not supported by server", "")
ErrRegistrationFailed(text) == Err("Client registration failed", text)
ErrDenied(param) == Err("Authorization failed", param)
ErrTimeout == Err("Authorization timeout", "")
ErrInvalidCallback == Err("Invalid callback: missing code", "")
ErrTokenExchange(text) == Err("Token exchange failed", text)
ErrFetch == Err("fetch failed", "")
ErrRefreshFailed(text) == Err("Token refresh failed", text)
ErrTypeError == Err("TypeError", "")

\* how a public call ended: the token it returned and the statement that
\* returned it, or the error it threw
NoResult == [kind |-> "none"]
Pending == [kind |-> "pending"]
Returned(tok, via) == [kind |-> "token", token |-> tok, via |-> via]
Thrown(e) == [kind |-> "error", error |-> e]
Void == [kind |-> "void"]
Crashed == [kind |-> "crash"]

\* a fetch() that was sent and is not answered yet
\* the body of a request: the form fields the claims are about (none: NoBody)
NoBody == [grant_type |-> "none"]
NoReq == [kind |-> "none", url |-> NoUrl, body |-> NoBody]
Req(kind, url) == [kind |-> kind, url |-> url, body |-> NoBody]

\* generatePKCE(): the verifier is 32 random bytes, the challenge its
\* SHA-256 digest.  A draw from the random source is named by its place n
\* in the behaviour, <<public call, draw within the call>>: two draws give
\* the same bytes only if they are the same draw.
NoVerifier == [random |-> <<0, 0>>]
S256(verifier) == [sha256 |-> verifier]
generatePKCE_PlainChallenge(n) == [verifier |-> [random |-> n], challenge |-> [random |-> n]]
generatePKCE_SameVerifier(n) ==
  [verifier |-> [random |-> <<1, 0>>], challenge |-> S256([random |-> <<1, 0>>])]
generatePKCE(n) == [verifier |-> [random |-> n], challenge |-> S256([random |-> n])]

\* `http://${callbackHost}:${callbackPort}/callback`
RedirectUri == [scheme |-> "http", host |-> "localhost", path |-> <<"callback">>]

\* the query of the authorization URL (none: NoParams)
NoParams == [response_type |-> "none"]
searchParams(clientInfo, challenge) ==
  [client_id |-> clientInfo.client_id, redirect_uri |-> RedirectUri,
   response_type |-> "code", code_challenge |-> challenge,
   code_challenge_method |-> "S256"]

\* the form of the code exchange
TokenRequestBody(code, clientInfo, verifier) ==
  [grant_type |-> "authorization_code", code |-> code, redirect_uri |-> RedirectUri,
   client_id |-> clientInfo.client_id, code_verifier |-> verifier]

\* ------------------------------------------------------------------- state
VARIABLES
  now,       \* Date.now()
  config,    \* this.config: whether staticClientInfo is set
  disk,      \* the session file
  session,   \* this.session
  metadata,  \* this.metadata
  pc,        \* where the public call in progress is suspended ("idle": none)
  req,       \* the fetch() the call in progress waits for
  att,       \* the authorization attempt in progress: its timeout timer, its server, its client
  srv,       \* the server bound to the callback port, and whose it is:
             \* "current" (the attempt in progress), "stale" (an ended one), "none" (port free)
  nextTok,   \* the number of the next token the token endpoint issues
  calls,     \* public calls started
  obs,       \* the current (or last) public call: which, its refresh, its callback wait
  result,    \* how the current (or last) public call ended
  sent,      \* the requests the current (or last) public call has sent, by kind
  drawn,     \* the draws the current (or last) public call has made from the random source
  cpc,       \* overlapping calls: where each caller's authorize() is suspended
  cread,     \* overlapping calls: what each caller's loadSession() read
  port,      \* overlapping calls: the caller whose server holds the callback port (0: free)
  wconfig,   \* MCPWrapper: this.config (authMode, allowedTools, headers)
  wpc,       \* MCPWrapper: where start() is, or "running", "failed"
  connected, \* MCPWrapper: which of upstreamClient and server are connected
  headers,   \* MCPWrapper: the headers object given to the upstream transport
  granted,   \* MCPWrapper: the session whose token authorize() returned to start()
  rq,        \* MCPWrapper: the client's requests, each with what became of it
  stats      \* MCPWrapper: this.stats

\* the state of the overlapping calls, which the calls made one at a time leave alone
concVars == <<cpc, cread, port>>

\* the state of the wrapper, which the manager's calls leave alone
wrapVars == <<wconfig, wpc, connected, headers, granted, rq, stats>>

\* the state of the manager apart from the clock, which the wrapper leaves alone
oauthVars == <<config, disk, session, metadata, pc, req, att, srv, nextTok, calls, obs, result,
               sent, drawn, cpc, cread, port>>

vars == <<now, config, disk, session, metadata, pc, req, att, srv, nextTok, calls, obs, result,
          sent, drawn, cpc, cread, port, wconfig, wpc, connected, headers, granted, rq, stats>>

NoSrv == [owner |-> "none", closeAt |-> 0, handled |-> 0]
NoAttempt ==
  [armedAt |-> 0, timer |-> FALSE, lstn |-> "none", clientInfo |-> NoClient, authUrl |-> NoUrl,
   searchParams |-> NoParams, verifier |-> NoVerifier]

\* an attempt whose promise is settled: its timer and its listen() are done
\* with; its client, its authorization URL's query and its verifier are
\* still held when the code exchange follows
Settled(a, keepClient) ==
  IF keepClient
  THEN [NoAttempt EXCEPT !.clientInfo = a.clientInfo, !.searchParams = a.searchParams,
                         !.verifier = a.verifier]
  ELSE NoAttempt

\* the bound server once its attempt's promise is settled
Stale(s) == IF s.owner = "current" THEN [s EXCEPT !.owner = "stale"] ELSE s

\* what a request to /callback carries ("": the parameter is absent)
\* "abc" is the code the authorization server issued for the attempt's
\* authorization request; ForgedQuery is a request to /callback that some
\* other page made the browser send, with a code of its own
ForgedQuery == [code |-> "forged", error |-> ""]
CallbackQueries == [code : {"", "abc"}, error : {"", "access_denied"}]
NoQuery == [code |-> "", error |-> ""]

\* no answer of the registration endpoint (no request, or none answered yet)
NoAnswer == [kind |-> "none"]

\* the access token a session holds (0: no session, no tokens, or none in them)
HeldToken(s) == IF s # NoSession /\ HasTokens(s) THEN s.tokens.access_token ELSE 0

\* a public call starts: what it starts from, and nothing observed yet
\*   refresh: "none", "sent", "ok", "failed"     disc: "none", "ok", "failed"
\*   wait: how the callback wait ended            cb: the query that ended it
\*   waited: the milliseconds the timer ran when the timeout ended it
\*   open: what became of open(authUrl): "none" (not called), "opened", "failed"
NewObs(op) ==
  [op |-> op, held |-> HeldToken(session), disk0 |-> disk,
   refresh |-> "none", disc |-> "none", reg |-> NoAnswer,
   wait |-> "none", cb |-> NoQuery, waited |-> 0, open |-> "none"]

\* the callers of the overlapping calls, and a caller that has read nothing
Callers == {1, 2}
NoRead == [kind |-> "unread"]

\* a call that has sent no request
Sent0 == [discover |-> 0, register |-> 0, token |-> 0, refresh |-> 0]

\* ------------------------------------------------------ MCPWrapper: values
\* an Authorization header value `Bearer <token>` (tokens are numbers: 0 is
\* the token written in the configuration), or no such header
NoAuthorization == [bearer |-> -1]
Bearer(token) == [bearer |-> token]
NoHeaders == [Authorization |-> NoAuthorization]
ConfiguredHeaders == [Authorization |-> Bearer(0)]

\* tools of the upstream server, and the lists it may answer tools/list with
Tool(n) == [name |-> n, description |-> n]
UpstreamLists ==
  {<< >>,
   <<Tool("write"), Tool("read")>>,
   <<Tool("read"), Tool("write"), Tool("delete")>>}

\* the allowedTools a configuration may have ("search" is no upstream tool)
AllowedLists == {<< >>, <<"read">>, <<"delete", "search", "read">>}
CalledNames == {"read", "write", "search"}

WrapperConfigs ==
  {[authMode |-> "none", allowedTools |-> a, headers |-> NoHeaders] : a \in AllowedLists}
  \cup {[authMode |-> "token", allowedTools |-> a, headers |-> ConfiguredHeaders] : a \in AllowedLists}
  \cup {[authMode |-> "oauth", allowedTools |-> a, headers |-> h] :
          a \in AllowedLists, h \in {NoHeaders, ConfiguredHeaders}}

\* the session behind the token authorize() returned (none: NoGrant)
NoGrant == [access_token |-> -1, expiresAt |-> 0]

\* a request of the client not yet sent, and the requests
Requests == 1..MaxRequests
NoReply == [kind |-> "none"]
NoRequest ==
  [method |-> "none", name |-> "", st |-> "new", forwards |-> 0,
   authorization |-> NoAuthorization, startTime |-> 0, upstream |-> << >>, reply |-> NoReply]

\* a ToolStats object
ZeroStats(n) == [name |-> n, callCount |-> 0, successCount |-> 0, errorCount |-> 0, totalDuration |-> 0]

\* no wrapper has been constructed
WrapperOff ==
  /\ wconfig = [authMode |-> "none", allowedTools |-> << >>, headers |-> NoHeaders]
  /\ wpc = "off"
  /\ connected = {}
  /\ headers = NoHeaders
  /\ granted = NoGrant
  /\ rq = [i \in Requests |-> NoRequest]
  /\ stats = << >>

\* no public call yet
IdleObs ==
  [op |-> "none", held |-> 0, disk0 |-> Absent,
   refresh |-> "none", disc |-> "none", reg |-> NoAnswer,
   wait |-> "none", cb |-> NoQuery, waited |-> 0, open |-> "none"]

Init ==
  /\ now = StartMs
  /\ config \in {[static |-> b] : b \in BOOLEAN}
  /\ disk \in InitFiles
  /\ session = NoSession
  /\ metadata = NoMetadata
  /\ pc = "idle"
  /\ req = NoReq
  /\ att = NoAttempt
  /\ srv = NoSrv
  /\ nextTok = 2
  /\ calls = 0
  /\ obs = IdleObs
  /\ result = NoResult
  /\ sent = Sent0
  /\ drawn = 0
  /\ cpc = [c \in Callers |-> "off"]
  /\ cread = [c \in Callers |-> NoRead]
  /\ port = 0
  /\ WrapperOff

\* a behaviour is followed until its last public call has ended
Live == calls < MaxCalls \/ pc # "idle"

\* ------------------------------------------------------- ends of a call
\* the requests sent so far by the call this step belongs to: none when the
\* step starts the call
SentSoFar == IF pc = "idle" THEN Sent0 ELSE sent

Return(tok, via) ==
  pc' = "idle" /\ req' = NoReq /\ result' = Returned(tok, via) /\ sent' = SentSoFar
Throw(e) ==
  pc' = "idle" /\ req' = NoReq /\ result' = Thrown(e) /\ sent' = SentSoFar
Post(stage, url, body) ==
  /\ pc' = stage
  /\ req' = [Req(stage, url) EXCEPT !.body = body]
  /\ result' = Pending
  /\ sent' = [SentSoFar EXCEPT ![stage] = @ + 1]
Fetch(stage, url) == Post(stage, url, NoBody)

\* `return this.session.tokens.access_token`: a TypeError when tokens is undefined
ReturnAccessToken(s, via) ==
  IF HasTokens(s) THEN Return(s.tokens.access_token, via) ELSE Throw(ErrTypeError)

\* ------------------------------------------------------------- authorize()
WellKnown(base) == WithPath(WithPath(base, ".well-known"), "oauth-authorization-server")

\* authorize() up to its first suspension: the saved session is returned,
\* or the discovery request is sent.  Sets session, pc, req, result.
authorize ==
  LET s == loadSession(disk, now) IN
  /\ session' = s
  /\ IF s # NoSession
     THEN ReturnAccessToken(s, "saved-session")
     ELSE Fetch("discover", WellKnown(getAuthBaseUrl(ServerUrl)))

\* performAuthorizationFlow() up to its wait for the callback: the PKCE
\* pair, the authorization URL, the timeout timer, app.listen().  Sets pc,
\* req, result, att, drawn.
performAuthorizationFlow(md, clientInfo) ==
  LET pkce == generatePKCE(<<calls, drawn>>) IN
  /\ drawn' = drawn + 1
  /\ IF md.authorization_endpoint = NoUrl
     THEN \* new URL(undefined) throws
          /\ Throw(ErrTypeError)
          /\ att' = att
     ELSE /\ pc' = "wait"
          /\ req' = NoReq
          /\ result' = Pending
          /\ sent' = sent
          /\ att' = [armedAt |-> now, timer |-> TRUE, lstn |-> "binding",
                     clientInfo |-> clientInfo, authUrl |-> md.authorization_endpoint,
                     searchParams |-> searchParams(clientInfo, pkce.challenge),
                     verifier |-> pkce.verifier]

\* authorize()'s catch around registerClient(): the error is logged and a
\* new Error with a fixed message is thrown in its place
RegistrationCatch(e) == ErrRegistration

\* the discovery request is answered: discoverMetadata() returns, then the
\* static client is used or registerClient() sends its request
DiscoveryResponseFrom(answers) ==
  /\ pc = "discover"
  /\ \E r \in answers :
       LET md == discoverMetadata(getAuthBaseUrl(ServerUrl), r) IN
       /\ metadata' = md
       /\ obs' = [obs EXCEPT !.disc = IF DiscoveryFailed(r) THEN "failed" ELSE "ok"]
       /\ IF config.static
          THEN performAuthorizationFlow(md, StaticClient)
          ELSE IF md.registration_endpoint = NoUrl
               THEN /\ Throw(RegistrationCatch(ErrRegistrationUnsupported))
                    /\ UNCHANGED <<att, drawn>>
               ELSE /\ Fetch("register", md.registration_endpoint)
                    /\ UNCHANGED <<att, drawn>>
  /\ UNCHANGED <<now, config, disk, session, srv, nextTok, calls>>
  /\ UNCHANGED concVars
  /\ UNCHANGED wrapVars

DiscoveryResponse == DiscoveryResponseFrom(DiscoveryResponses)

\* the registration request is answered
RegistrationResponse ==
  /\ pc = "register"
  /\ \E r \in RegistrationResponses :
       /\ obs' = [obs EXCEPT !.reg = r]
       /\ IF r.net /\ r.ok
          THEN performAuthorizationFlow(metadata, r.body)
          ELSE /\ Throw(RegistrationCatch(IF r.net THEN ErrRegistrationFailed(r.text) ELSE ErrFetch))
               /\ UNCHANGED <<att, drawn>>
  /\ UNCHANGED <<now, config, disk, session, metadata, srv, nextTok, calls>>
  /\ UNCHANGED concVars
  /\ UNCHANGED wrapVars

CallAuthorize ==
  /\ pc = "idle"
  /\ calls < MaxCalls
  /\ calls' = calls + 1
  /\ obs' = NewObs("authorize")
  /\ authorize
  /\ UNCHANGED <<now, config, disk, metadata, att, srv, nextTok>>
  /\ drawn' = 0
  /\ UNCHANGED concVars
  /\ UNCHANGED wrapVars

\* ----------------------------------------------------- the callback listener
\* (mutant) the handler looks at the code before the error
CallbackOutcome_CodeFirst(q) ==
  IF q.code # "" THEN "code" ELSE IF q.error # "" THEN "denied" ELSE "invalid"

\* the /callback handler's branch: error first, then code, else invalid
CallbackOutcome(q) ==
  IF q.error # "" THEN "denied" ELSE IF q.code # "" THEN "code" ELSE "invalid"

\* (mutant) resolve() and reject() act on a promise that is settled already
PromisePending_Resettles(s, p) == s.owner # "none"

\* the promise of attempt a is still pending when a request reaches the
\* server s: resolve() and reject() do nothing on a settled promise
PromisePending(s, p) == s.owner = "current" /\ p = "wait"

\* what app.listen() does when the port is taken: the 'error' event has no
\* handler and ends the process, or (Express 5) the listen callback runs
\* with the error, which the code ignores
ListenFailures == {"crash", "callback"}

\* open(authUrl): the browser opens, or the promise rejects and .catch()
\* logs the URL
OpenOutcomes == {"opened", "failed"}

\* the listen callback: open(authUrl) is called and its rejection caught
ListenCallback(outcomes) == \E o \in outcomes : obs' = [obs EXCEPT !.open = o]

\* the server's 'listening' event, or its EADDRINUSE error
ListeningWith(outcomes) ==
  /\ pc = "wait"
  /\ att.lstn = "binding"
  /\ IF srv.owner = "none"
     THEN /\ srv' = [owner |-> "current", closeAt |-> 0, handled |-> 0]
          /\ att' = [att EXCEPT !.lstn = "listening"]
          /\ ListenCallback(outcomes)
          /\ UNCHANGED <<pc, result>>
     ELSE /\ srv' = srv
          /\ \E f \in ListenFailures :
               IF f = "crash"
               THEN /\ pc' = "crashed"
                    /\ result' = Crashed
                    /\ att' = Settled(att, FALSE)
                    /\ obs' = obs
               ELSE /\ att' = [att EXCEPT !.lstn = "failed"]
                    /\ ListenCallback(outcomes)
                    /\ UNCHANGED <<pc, result>>
  /\ UNCHANGED <<now, config, disk, session, metadata, req, nextTok, calls, sent>>
  /\ UNCHANGED drawn
  /\ UNCHANGED concVars
  /\ UNCHANGED wrapVars

\* on the machines of the main specification the browser opens
Listening == ListeningWith({"opened"})

\* (mutant) the code exchange follows however the wait ended
AfterWait_ExchangesAnyway(outcome, q) ==
  /\ obs' = [obs EXCEPT !.wait = outcome, !.cb = q,
                        !.waited = IF outcome = "timeout" THEN now - att.armedAt ELSE 0]
  /\ IF metadata.token_endpoint = NoUrl
     THEN Throw(ErrTypeError)
     ELSE Post("token", metadata.token_endpoint,
               TokenRequestBody(q.code, att.clientInfo, att.verifier))

\* the continuation of `await authCodePromise` once the promise is settled:
\* the token request, or the rejection thrown out of authorize()
AfterWait(outcome, q) ==
  /\ obs' = [obs EXCEPT !.wait = outcome, !.cb = q,
                        !.waited = IF outcome = "timeout" THEN now - att.armedAt ELSE 0]
  /\ IF outcome = "code"
     THEN IF metadata.token_endpoint = NoUrl
          THEN Throw(ErrTypeError)   \* fetch(undefined) rejects
          ELSE Post("token", metadata.token_endpoint,
                    TokenRequestBody(q.code, att.clientInfo, att.verifier))
     ELSE Throw(CASE outcome = "denied" -> ErrDenied(q.error)
                  [] outcome = "invalid" -> ErrInvalidCallback
                  [] outcome = "timeout" -> ErrTimeout)

\* a request reaches /callback on the bound server: its handler clears its
\* attempt's timer, settles its attempt's promise (a no-op once settled) and
\* schedules server.close() after the grace delay
CallbackFrom(queries) ==
  /\ Live
  /\ srv.owner # "none"
  /\ srv.handled < MaxCallbacks
  /\ \E q \in queries :
       /\ srv' = [Stale(srv) EXCEPT !.handled = @ + 1,
                                    !.closeAt = IF @ = 0 THEN now + CloseGraceMs ELSE @]
       /\ IF PromisePending(srv, pc)
          THEN /\ att' = Settled(att, CallbackOutcome(q) = "code" /\ metadata.token_endpoint # NoUrl)
               /\ AfterWait(CallbackOutcome(q), q)
          ELSE UNCHANGED <<pc, req, result, obs, att, sent>>
  /\ UNCHANGED <<now, config, disk, session, metadata, nextTok, calls>>
  /\ UNCHANGED drawn
  /\ UNCHANGED concVars
  /\ UNCHANGED wrapVars

Callback == CallbackFrom(CallbackQueries)

\* the 300 s timer fires: the promise is rejected; nothing closes the server
Timeout ==
  /\ pc = "wait"
  /\ att.timer
  /\ att.lstn # "binding"    \* the 'listening' event is dispatched before a 300 s timer
  /\ now >= att.armedAt + CallbackTimeoutMs
  /\ att' = Settled(att, FALSE)
  /\ srv' = Stale(srv)
  /\ AfterWait("timeout", NoQuery)
  /\ UNCHANGED <<now, config, disk, session, metadata, nextTok, calls>>
  /\ UNCHANGED drawn
  /\ UNCHANGED concVars
  /\ UNCHANGED wrapVars

\* a scheduled server.close() runs: the port is free again
CloseServer ==
  /\ Live
  /\ srv.owner # "none"
  /\ srv.closeAt # 0
  /\ now >= srv.closeAt
  /\ srv' = NoSrv
  /\ UNCHANGED <<now, config, disk, session, metadata, pc, req, att, nextTok, calls, obs, result, sent>>
  /\ UNCHANGED drawn
  /\ UNCHANGED concVars
  /\ UNCHANGED wrapVars

\* ------------------------------------------------------------- saveSession()
\* mkdir and writeFile succeed; mkdir (or the open) fails and the file is
\* untouched; the write fails after the file was truncated
SaveOutcomes == {"ok", "untouched", "truncated"}

saveSession(file, s, w) ==
  CASE w = "ok" -> FileOf(s)
    [] w = "untouched" -> file
    [] w = "truncated" -> Garbage

\* (mutant) the session is written before the answer is looked at, so a
\* failed exchange leaves a record without tokens
TokenResponse_SaveEarly ==
  /\ pc = "token"
  /\ \E r \in TokenResponses(nextTok), w \in SaveOutcomes :
       IF r.net /\ r.ok
       THEN LET s == Session(att.clientInfo, r.body, ExpiresAt(r.body, now)) IN
            /\ session' = s
            /\ disk' = saveSession(disk, s, w)
            /\ nextTok' = nextTok + 1
            /\ Return(r.body.access_token, "exchange")
       ELSE /\ Throw(IF r.net THEN ErrTokenExchange(r.text) ELSE ErrFetch)
            /\ disk' = saveSession(disk, Session(att.clientInfo, NoTokens, 0), w)
            /\ UNCHANGED <<session, nextTok>>
  /\ att' = Settled(att, FALSE)
  /\ UNCHANGED <<now, config, metadata, srv, calls, obs>>
  /\ UNCHANGED drawn
  /\ UNCHANGED concVars
  /\ UNCHANGED wrapVars

\* (mutant) a failed code exchange is sent once more
TokenResponse_RetriesOnce ==
  /\ pc = "token"
  /\ \E r \in TokenResponses(nextTok), w \in SaveOutcomes :
       IF r.net /\ r.ok
       THEN LET s == Session(att.clientInfo, r.body, ExpiresAt(r.body, now)) IN
            /\ session' = s
            /\ disk' = saveSession(disk, s, w)
            /\ nextTok' = nextTok + 1
            /\ Return(r.body.access_token, "exchange")
            /\ att' = Settled(att, FALSE)
       ELSE /\ IF sent.token < 2
               THEN Fetch("token", req.url) /\ att' = att
               ELSE Throw(ErrFetch) /\ att' = Settled(att, FALSE)
            /\ UNCHANGED <<session, disk, nextTok>>
  /\ UNCHANGED <<now, config, metadata, srv, calls, obs>>
  /\ UNCHANGED drawn
  /\ UNCHANGED concVars
  /\ UNCHANGED wrapVars

\* (mutant) an error of mkdir or writeFile reaches the caller
TokenResponse_SaveThrows ==
  /\ pc = "token"
  /\ \E r \in TokenResponses(nextTok), w \in SaveOutcomes :
       IF r.net /\ r.ok
       THEN LET s == Session(att.clientInfo, r.body, ExpiresAt(r.body, now)) IN
            /\ session' = s
            /\ disk' = saveSession(disk, s, w)
            /\ nextTok' = nextTok + 1
            /\ IF w = "ok"
               THEN Return(r.body.access_token, "exchange")
               ELSE Throw(Err("Failed to save session", w))
       ELSE /\ Throw(IF r.net THEN ErrTokenExchange(r.text) ELSE ErrFetch)
            /\ UNCHANGED <<session, disk, nextTok>>
  /\ att' = Settled(att, FALSE)
  /\ UNCHANGED <<now, config, metadata, srv, calls, obs>>
  /\ UNCHANGED drawn
  /\ UNCHANGED concVars
  /\ UNCHANGED wrapVars

\* the code-exchange request is answered: the session is built and saved
TokenResponse ==
  /\ pc = "token"
  /\ \E r \in TokenResponses(nextTok), w \in SaveOutcomes :
       IF r.net /\ r.ok
       THEN LET s == Session(att.clientInfo, r.body, ExpiresAt(r.body, now)) IN
            /\ session' = s
            /\ disk' = saveSession(disk, s, w)
            /\ nextTok' = nextTok + 1
            /\ Return(r.body.access_token, "exchange")
       ELSE /\ Throw(IF r.net THEN ErrTokenExchange(r.text) ELSE ErrFetch)
            /\ UNCHANGED <<session, disk, nextTok>>
  /\ att' = Settled(att, FALSE)
  /\ UNCHANGED <<now, config, metadata, srv, calls, obs>>
  /\ UNCHANGED drawn
  /\ UNCHANGED concVars
  /\ UNCHANGED wrapVars

\* ---------------------------------------------------------- getAccessToken()
\* (mutant) the comparison is strict
NeedsRefresh_Strict(s, t) == s.expiresAt # 0 /\ t > s.expiresAt - RefreshWindowMs

\* (mutant) the held token is returned whatever its expiry
NeedsRefresh_Never(s, t) == FALSE

\* expiresAt && Date.now() >= expiresAt - 300000
NeedsRefresh(s, t) == s.expiresAt # 0 /\ t >= s.expiresAt - RefreshWindowMs

\* refreshAccessToken() throws before it sends anything: no metadata, no
\* tokens (a TypeError), no refresh token, no clientInfo (a TypeError), or a
\* token endpoint fetch() cannot parse
RefreshBlocked(md, s) ==
  \/ md = NoMetadata
  \/ ~HasTokens(s)
  \/ s.tokens.refresh_token = 0
  \/ s.clientInfo = NoClient
  \/ md.token_endpoint = NoUrl

\* (mutant) the failure of the refresh is thrown to the caller
RefreshCatch_Rethrows ==
  /\ Throw(ErrRefreshFailed(""))
  /\ session' = session

\* (mutant) after a failed refresh the held access token is returned
RefreshCatch_ReturnsHeld ==
  /\ ReturnAccessToken(session, "cache")
  /\ session' = session

\* (mutant) after a failed refresh the full flow runs whatever the file holds
RefreshCatch_Rediscovers ==
  /\ session' = NoSession
  /\ Fetch("discover", WellKnown(getAuthBaseUrl(ServerUrl)))

\* getAccessToken()'s catch around the refresh: the error is logged and
\* `return this.authorize()` runs
RefreshCatch == authorize

CallGetAccessToken ==
  /\ pc = "idle"
  /\ calls < MaxCalls
  /\ calls' = calls + 1
  /\ IF session = NoSession
     THEN /\ obs' = NewObs("getAccessToken")
          /\ authorize
     ELSE IF NeedsRefresh(session, now)
          THEN IF RefreshBlocked(metadata, session)
               THEN /\ obs' = [NewObs("getAccessToken") EXCEPT !.refresh = "failed"]
                    /\ RefreshCatch
               ELSE /\ obs' = [NewObs("getAccessToken") EXCEPT !.refresh = "sent"]
                    /\ Fetch("refresh", metadata.token_endpoint)
                    /\ session' = session
          ELSE /\ obs' = NewObs("getAccessToken")
               /\ ReturnAccessToken(session, "cache")
               /\ session' = session
  /\ UNCHANGED <<now, config, disk, metadata, att, srv, nextTok>>
  /\ drawn' = 0
  /\ UNCHANGED concVars
  /\ UNCHANGED wrapVars

\* (mutant) a response without refresh_token leaves the held refresh token
RefreshResponse_KeepsRefreshToken ==
  /\ pc = "refresh"
  /\ \E r \in TokenResponses(nextTok), w \in SaveOutcomes :
       IF r.net /\ r.ok
       THEN LET kept == IF r.body.refresh_token = 0
                        THEN session.tokens.refresh_token ELSE r.body.refresh_token
                s == [session EXCEPT !.tokens = [r.body EXCEPT !.refresh_token = kept],
                                     !.expiresAt = ExpiresAt(r.body, now)] IN
            /\ session' = s
            /\ disk' = saveSession(disk, s, w)
            /\ nextTok' = nextTok + 1
            /\ obs' = [obs EXCEPT !.refresh = "ok"]
            /\ ReturnAccessToken(s, "refresh")
       ELSE /\ obs' = [obs EXCEPT !.refresh = "failed"]
            /\ RefreshCatch
            /\ UNCHANGED <<disk, nextTok>>
  /\ UNCHANGED <<now, config, metadata, att, srv, calls>>
  /\ UNCHANGED drawn
  /\ UNCHANGED concVars
  /\ UNCHANGED wrapVars

\* the refresh request is answered: the session is updated and saved, or
\* the failure is caught and authorize() runs
RefreshResponse ==
  /\ pc = "refresh"
  /\ \E r \in TokenResponses(nextTok), w \in SaveOutcomes :
       IF r.net /\ r.ok
       THEN LET s == [session EXCEPT !.tokens = r.body, !.expiresAt = ExpiresAt(r.body, now)] IN
            /\ session' = s
            /\ disk' = saveSession(disk, s, w)
            /\ nextTok' = nextTok + 1
            /\ obs' = [obs EXCEPT !.refresh = "ok"]
            /\ ReturnAccessToken(s, "refresh")
       ELSE /\ obs' = [obs EXCEPT !.refresh = "failed"]
            /\ RefreshCatch
            /\ UNCHANGED <<disk, nextTok>>
  /\ UNCHANGED <<now, config, metadata, att, srv, calls>>
  /\ UNCHANGED drawn
  /\ UNCHANGED concVars
  /\ UNCHANGED wrapVars

\* ------------------------------------------------------------ clearSession()
\* (mutant) the file is emptied and not removed
Unlinked_Truncates(file) == {Garbage}

\* the file after clearSession(): unlinked, or left when unlink fails
Unlinked(file) == IF file = Absent THEN {Absent} ELSE {Absent, file}

CallClearSession ==
  /\ pc = "idle"
  /\ calls < MaxCalls
  /\ calls' = calls + 1
  /\ obs' = NewObs("clearSession")
  /\ session' = NoSession
  /\ disk' \in Unlinked(disk)
  /\ result' = Void
  /\ sent' = Sent0
  /\ UNCHANGED <<now, config, metadata, pc, req, att, srv, nextTok>>
  /\ drawn' = 0
  /\ UNCHANGED concVars
  /\ UNCHANGED wrapVars

\* ------------------------------------------------------------- environment
\* time passes
Tick ==
  /\ Live
  /\ ~(pc = "wait" /\ att.lstn = "binding")   \* 'listening' or 'error' comes first
  /\ \E d \in {CloseGraceMs, CallbackTimeoutMs} :
       /\ now + d \in TimePoints
       /\ now' = now + d
  /\ UNCHANGED <<config, disk, session, metadata, pc, req, att, srv, nextTok, calls, obs, result, sent>>
  /\ UNCHANGED drawn
  /\ UNCHANGED concVars
  /\ UNCHANGED wrapVars

\* (mutant) the new manager's sessionFile is another path, where no file is
Restart_OtherFile ==
  /\ Live
  /\ pc \in {"idle", "crashed"}
  /\ disk' = Absent
  /\ session' = NoSession
  /\ metadata' = NoMetadata
  /\ pc' = "idle"
  /\ req' = NoReq
  /\ att' = NoAttempt
  /\ srv' = NoSrv
  /\ obs' = IdleObs
  /\ result' = NoResult
  /\ sent' = Sent0
  /\ UNCHANGED <<now, config, nextTok, calls>>
  /\ drawn' = 0
  /\ UNCHANGED concVars
  /\ UNCHANGED wrapVars

\* the process ends (or has crashed) and a new OAuthManager is constructed
\* with the same configuration: its sessionFile is the same path (configDir,
\* the first 8 hex digits of md5(serverUrl), session.json), so only the
\* session file survives
Restart ==
  /\ Live
  /\ pc \in {"idle", "crashed"}
  /\ session' = NoSession
  /\ metadata' = NoMetadata
  /\ pc' = "idle"
  /\ req' = NoReq
  /\ att' = NoAttempt
  /\ srv' = NoSrv
  /\ obs' = IdleObs
  /\ result' = NoResult
  /\ sent' = Sent0
  /\ UNCHANGED <<now, config, disk, nextTok, calls>>
  /\ drawn' = 0
  /\ UNCHANGED concVars
  /\ UNCHANGED wrapVars

Next ==
  \/ CallAuthorize
  \/ CallGetAccessToken
  \/ CallClearSession
  \/ DiscoveryResponse
  \/ RegistrationResponse
  \/ Listening
  \/ Callback
  \/ Timeout
  \/ CloseServer
  \/ TokenResponse
  \/ RefreshResponse
  \/ Tick
  \/ Restart

Spec == Init /\ [][Next]_vars

\* ================================================== an untrusted environment
\* The same manager, where in addition the authorization server may publish
\* plain-http endpoints, a page other than the authorization server may
\* make the browser request /callback, and the machine may have no browser
\* that open() can start.
InsecureDiscovery ==
  DiscoveryResponseFrom({[net |-> TRUE, ok |-> TRUE, json |-> TRUE, body |-> PublishedInsecure]})

ForgedCallback == CallbackFrom({ForgedQuery})

HeadlessListening == ListeningWith({"failed"})

UntrustedNext ==
  \/ Next
  \/ InsecureDiscovery
  \/ ForgedCallback
  \/ HeadlessListening

UntrustedSpec == Init /\ [][UntrustedNext]_vars

\* ===================================================== an authorized manager
\* The same manager, followed from the moment its first authorize() has
\* returned the token of a code exchange: it holds the session and the
\* metadata, the record was written or the write failed, and the listener
\* of the attempt closes when its grace time is over.
AuthorizedTokens == [access_token |-> 2, expires_in |-> 301, refresh_token |-> 2]
AuthorizedSession(cfg) ==
  Session(IF cfg.static THEN StaticClient ELSE DynamicClient,
          AuthorizedTokens, ExpiresAt(AuthorizedTokens, StartMs))

AuthorizedInit ==
  /\ now = StartMs
  /\ config \in {[static |-> b] : b \in BOOLEAN}
  /\ session = AuthorizedSession(config)
  /\ disk \in {saveSession(Absent, session, w) : w \in {"ok", "untouched"}}
  /\ metadata = DefaultMetadata(getAuthBaseUrl(ServerUrl))
  /\ pc = "idle"
  /\ req = NoReq
  /\ att = NoAttempt
  /\ srv = [owner |-> "stale", closeAt |-> StartMs + CloseGraceMs, handled |-> 1]
  /\ nextTok = AuthorizedTokens.access_token + 1
  /\ calls = 0
  /\ obs = IdleObs
  /\ result = NoResult
  /\ sent = Sent0
  /\ drawn = 0
  /\ cpc = [c \in Callers |-> "off"]
  /\ cread = [c \in Callers |-> NoRead]
  /\ port = 0
  /\ WrapperOff

AuthorizedSpec == AuthorizedInit /\ [][Next]_vars

\* ======================================================= overlapping calls
\* Two calls of authorize() in progress on one manager.  Each await of the
\* code is a point where the other call may run.  The calls are followed for
\* less than the 300 s of the callback timeout, so no timer fires, and each
\* listener receives at most one callback.

\* the variables that only the calls made one at a time use
seqVars == <<now, pc, req, att, srv, nextTok, calls, obs, result, sent, drawn>>

\* the record on disk when the calls start: none, or one that has expired
ConcInitFiles == {Absent, FileOf([OldSession EXCEPT !.expiresAt = StartMs])}

\* the answers of the discovery endpoint that are followed: unreachable, or
\* the full metadata
ConcDiscoveryResponses ==
  {r \in DiscoveryResponses : ~r.net \/ (r.ok /\ r.json /\ r.body = PublishedFull)}

\* the token set caller c's code is exchanged for, and the session
\* authorize() builds from it
ConcTokens(c) == [access_token |-> c + 1, expires_in |-> 301, refresh_token |-> c + 1]
ConcSession(c) ==
  Session(IF config.static THEN StaticClient ELSE DynamicClient,
          ConcTokens(c), ExpiresAt(ConcTokens(c), now))

ConcInit ==
  /\ now = StartMs
  /\ config \in {[static |-> b] : b \in BOOLEAN}
  /\ disk \in ConcInitFiles
  /\ session = NoSession
  /\ metadata = NoMetadata
  /\ pc = "idle"
  /\ req = NoReq
  /\ att = NoAttempt
  /\ srv = NoSrv
  /\ nextTok = 2
  /\ calls = 0
  /\ obs = IdleObs
  /\ result = NoResult
  /\ sent = Sent0
  /\ drawn = 0
  /\ cpc = [c \in Callers |-> "idle"]
  /\ cread = [c \in Callers |-> NoRead]
  /\ port = 0
  /\ WrapperOff

\* caller c is now at position p
At(c, p) == cpc' = [cpc EXCEPT ![c] = p]

\* caller c calls authorize(): loadSession() reads the file as it is at this
\* moment; the session is returned, or the discovery request is sent
ConcAuthorize(c) ==
  /\ cpc[c] = "idle"
  /\ cread' = [cread EXCEPT ![c] = disk]
  /\ session' = loadSession(disk, now)
  /\ At(c, IF session' # NoSession THEN "returned" ELSE "discover")
  /\ UNCHANGED <<config, disk, metadata, port>>
  /\ UNCHANGED seqVars
  /\ UNCHANGED wrapVars

\* caller c's discovery request is answered
ConcDiscoveryResponse(c) ==
  /\ cpc[c] = "discover"
  /\ \E r \in ConcDiscoveryResponses :
       metadata' = discoverMetadata(getAuthBaseUrl(ServerUrl), r)
  /\ At(c, IF config.static THEN "binding" ELSE "register")
  /\ UNCHANGED <<config, disk, session, cread, port>>
  /\ UNCHANGED seqVars
  /\ UNCHANGED wrapVars

\* caller c's registration request is answered
ConcRegistrationResponse(c) ==
  /\ cpc[c] = "register"
  /\ \E r \in RegistrationResponses :
       At(c, IF r.net /\ r.ok THEN "binding" ELSE "thrown")
  /\ UNCHANGED <<config, disk, session, metadata, cread, port>>
  /\ UNCHANGED seqVars
  /\ UNCHANGED wrapVars

\* the outcome of caller c's app.listen(): its server holds the port and the
\* browser is opened; or the port is taken, and the process ends or the
\* listen callback runs all the same and opens the browser
ConcListening(c) ==
  /\ cpc[c] = "binding"
  /\ IF port = 0
     THEN port' = c /\ At(c, "wait")
     ELSE \E f \in ListenFailures :
            IF f = "crash"
            THEN port' = 0 /\ cpc' = [d \in Callers |-> "crashed"]
            ELSE port' = port /\ At(c, "wait-unbound")
  /\ UNCHANGED <<config, disk, session, metadata, cread>>
  /\ UNCHANGED seqVars
  /\ UNCHANGED wrapVars

\* the browser's request reaches /callback on the server of caller c, which
\* waits for it
ConcCallback(c) ==
  /\ port = c
  /\ cpc[c] = "wait"
  /\ \E q \in CallbackQueries :
       At(c, IF CallbackOutcome(q) = "code" THEN "token" ELSE "thrown")
  /\ UNCHANGED <<config, disk, session, metadata, cread, port>>
  /\ UNCHANGED seqVars
  /\ UNCHANGED wrapVars

\* the server.close() scheduled by the callback handler runs
ConcCloseServer ==
  /\ port # 0
  /\ cpc[port] \notin {"binding", "wait"}
  /\ port' = 0
  /\ UNCHANGED <<config, disk, session, metadata, cpc, cread>>
  /\ UNCHANGED seqVars
  /\ UNCHANGED wrapVars

\* caller c's code exchange is answered: the session is built and
\* saveSession() is entered
ConcTokenResponse(c) ==
  /\ cpc[c] = "token"
  /\ \E ok \in BOOLEAN :
       IF ok
       THEN session' = ConcSession(c) /\ At(c, "save")
       ELSE session' = session /\ At(c, "thrown")
  /\ UNCHANGED <<config, disk, metadata, cread, port>>
  /\ UNCHANGED seqVars
  /\ UNCHANGED wrapVars

\* writeFile() has opened the file, which truncates it, and has written a
\* part of the text
ConcWriteOpen(c) ==
  /\ cpc[c] = "save"
  /\ disk' = Garbage
  /\ At(c, "write")
  /\ UNCHANGED <<config, session, metadata, cread, port>>
  /\ UNCHANGED seqVars
  /\ UNCHANGED wrapVars

\* writeFile() has written the rest; authorize() returns the access token
ConcWriteDone(c) ==
  /\ cpc[c] = "write"
  /\ disk' = FileOf(ConcSession(c))
  /\ At(c, "returned")
  /\ UNCHANGED <<config, session, metadata, cread, port>>
  /\ UNCHANGED seqVars
  /\ UNCHANGED wrapVars

ConcNext ==
  \E c \in Callers :
    \/ ConcAuthorize(c)
    \/ ConcDiscoveryResponse(c)
    \/ ConcRegistrationResponse(c)
    \/ ConcListening(c)
    \/ ConcCallback(c)
    \/ ConcCloseServer
    \/ ConcTokenResponse(c)
    \/ ConcWriteOpen(c)
    \/ ConcWriteDone(c)

ConcSpec == ConcInit /\ [][ConcNext]_vars

\* ================================================================ MCPWrapper
\* The wrapper between a client on stdio and the upstream server.  Its
\* OAuthManager appears by what authorize() hands to start(): an error, or
\* the access token of a session with or without an expiry.

\* this.config.allowedTools.includes(name)
includes(list, x) == \E i \in 1..Len(list) : list[i] = x

\* (mutant) the allow-list is not applied to the listing
FilterTools_AllowsAll(tools, allowedTools) == tools

\* the tools/list handler's filter
FilterTools(tools, allowedTools) ==
  IF Len(allowedTools) > 0
  THEN SelectSeq(tools, LAMBDA tool : includes(allowedTools, tool.name))
  ELSE tools

\* (mutant) an empty allow-list allows nothing
IsAllowed_EmptyDenies(allowedTools, name) == includes(allowedTools, name)

\* the tools/call handler's check
IsAllowed(allowedTools, name) == ~(Len(allowedTools) > 0 /\ ~includes(allowedTools, name))

ErrNotAllowed(name) == Err("Tool is not allowed", name)
ErrUpstream == Err("upstream request failed", "")

\* (mutant) a failed call is counted as a call and not as an error
updateStats_DropsErrors(st, toolName, success, duration) ==
  LET had == IF toolName \in DOMAIN st THEN st ELSE (toolName :> ZeroStats(toolName)) @@ st IN
  [had EXCEPT ![toolName] =
     [@ EXCEPT !.callCount = @ + 1,
               !.successCount = IF success THEN @ + 1 ELSE @,
               !.totalDuration = @ + duration]]

\* updateStats(toolName, success, duration)
updateStats(st, toolName, success, duration) ==
  LET had == IF toolName \in DOMAIN st THEN st ELSE (toolName :> ZeroStats(toolName)) @@ st IN
  [had EXCEPT ![toolName] =
     [@ EXCEPT !.callCount = @ + 1,
               !.successCount = IF success THEN @ + 1 ELSE @,
               !.errorCount = IF success THEN @ ELSE @ + 1,
               !.totalDuration = @ + duration]]

\* what the manager's authorize() hands to start() at time t
AuthorizeOutcomes(t) ==
  {[ok |-> FALSE, session |-> NoGrant]}
  \cup {[ok |-> TRUE, session |-> [access_token |-> 2, expiresAt |-> e]] :
          e \in {0, t + 301 * MsPerSecond}}

\* the answers of the upstream server to tools/list
UpstreamAnswers ==
  {[ok |-> FALSE, tools |-> << >>]} \cup {[ok |-> TRUE, tools |-> l] : l \in UpstreamLists}

\* a wrapper has been constructed; its manager has done nothing yet
WrapperInit ==
  /\ now = StartMs
  /\ config = [static |-> FALSE]
  /\ disk = Absent
  /\ session = NoSession
  /\ metadata = NoMetadata
  /\ pc = "idle"
  /\ req = NoReq
  /\ att = NoAttempt
  /\ srv = NoSrv
  /\ nextTok = 2
  /\ calls = 0
  /\ obs = IdleObs
  /\ result = NoResult
  /\ sent = Sent0
  /\ drawn = 0
  /\ cpc = [c \in Callers |-> "off"]
  /\ cread = [c \in Callers |-> NoRead]
  /\ port = 0
  /\ wconfig \in WrapperConfigs
  /\ wpc = "new"
  /\ connected = {}
  /\ headers = NoHeaders
  /\ granted = NoGrant
  /\ rq = [i \in Requests |-> NoRequest]
  /\ stats = << >>

\* start(): the headers are copied from the configuration; in OAuth mode
\* authorize() is awaited
WrapperStart ==
  /\ wpc = "new"
  /\ headers' = wconfig.headers
  /\ wpc' = IF wconfig.authMode = "oauth" THEN "authorize" ELSE "connect"
  /\ UNCHANGED <<now, wconfig, connected, granted, rq, stats>>
  /\ UNCHANGED oauthVars

\* (mutant) a configured Authorization header is kept
AuthorizeReturns_KeepsConfigured ==
  /\ wpc = "authorize"
  /\ \E o \in AuthorizeOutcomes(now) :
       IF o.ok
       THEN /\ granted' = o.session
            /\ headers' = IF headers.Authorization = NoAuthorization
                           THEN [headers EXCEPT !.Authorization = Bearer(o.session.access_token)]
                           ELSE headers
            /\ wpc' = "connect"
       ELSE /\ wpc' = "failed"
            /\ UNCHANGED <<granted, headers>>
  /\ UNCHANGED <<now, wconfig, connected, rq, stats>>
  /\ UNCHANGED oauthVars

\* authorize() returns or throws
AuthorizeReturns ==
  /\ wpc = "authorize"
  /\ \E o \in AuthorizeOutcomes(now) :
       IF o.ok
       THEN /\ granted' = o.session
            /\ headers' = [headers EXCEPT !.Authorization = Bearer(o.session.access_token)]
            /\ wpc' = "connect"
       ELSE /\ wpc' = "failed"
            /\ UNCHANGED <<granted, headers>>
  /\ UNCHANGED <<now, wconfig, connected, rq, stats>>
  /\ UNCHANGED oauthVars

\* upstreamClient.connect(transport) ends: the transport holds the headers
UpstreamConnect ==
  /\ wpc = "connect"
  /\ \E ok \in BOOLEAN :
       IF ok
       THEN connected' = connected \cup {"upstream"} /\ wpc' = "stdio"
       ELSE connected' = connected /\ wpc' = "failed"
  /\ UNCHANGED <<now, wconfig, headers, granted, rq, stats>>
  /\ UNCHANGED oauthVars

\* server.connect(stdioTransport) ends
ServerConnect ==
  /\ wpc = "stdio"
  /\ \E ok \in BOOLEAN :
       IF ok
       THEN connected' = connected \cup {"stdio"} /\ wpc' = "running"
       ELSE connected' = connected /\ wpc' = "failed"
  /\ UNCHANGED <<now, wconfig, headers, granted, rq, stats>>
  /\ UNCHANGED oauthVars

\* the requests are numbered as they arrive
Arrives(i) == rq[i].st = "new" /\ \A j \in Requests : j < i => rq[j].st # "new"

\* a tools/list request arrives: listTools() is sent upstream with the
\* transport's headers (startTime: when it was sent)
ToolsList(i) ==
  /\ wpc = "running"
  /\ Arrives(i)
  /\ rq' = [rq EXCEPT ![i] = [NoRequest EXCEPT !.method = "tools/list", !.st = "forwarded",
                                               !.forwards = 1,
                                               !.authorization = headers.Authorization,
                                               !.startTime = now]]
  /\ UNCHANGED <<now, wconfig, wpc, connected, headers, granted, stats>>
  /\ UNCHANGED oauthVars

\* listTools() returns or throws: the filtered list, or the error, goes to the client
ListAnswer(i) ==
  /\ rq[i].method = "tools/list"
  /\ rq[i].st = "forwarded"
  /\ \E a \in UpstreamAnswers :
       rq' = [rq EXCEPT ![i].st = "done",
                        ![i].startTime = 0,
                        ![i].upstream = a.tools,
                        ![i].reply = IF a.ok
                                     THEN [kind |-> "tools",
                                           tools |-> FilterTools(a.tools, wconfig.allowedTools)]
                                     ELSE Thrown(ErrUpstream)]
  /\ UNCHANGED <<now, wconfig, wpc, connected, headers, granted, stats>>
  /\ UNCHANGED oauthVars

\* a tools/call request arrives: it is refused, or callTool() is sent upstream
ToolsCall(i) ==
  /\ wpc = "running"
  /\ Arrives(i)
  /\ \E name \in CalledNames :
       IF IsAllowed(wconfig.allowedTools, name)
       THEN rq' = [rq EXCEPT ![i] = [NoRequest EXCEPT !.method = "tools/call", !.name = name,
                                                      !.st = "forwarded", !.forwards = 1,
                                                      !.authorization = headers.Authorization,
                                                      !.startTime = now]]
       ELSE rq' = [rq EXCEPT ![i] = [NoRequest EXCEPT !.method = "tools/call", !.name = name,
                                                      !.st = "done",
                                                      !.reply = Thrown(ErrNotAllowed(name))]]
  /\ UNCHANGED <<now, wconfig, wpc, connected, headers, granted, stats>>
  /\ UNCHANGED oauthVars

\* callTool() returns or throws: the statistics are updated and the result,
\* or the error, goes to the client
CallAnswer(i) ==
  /\ rq[i].method = "tools/call"
  /\ rq[i].st = "forwarded"
  /\ \E ok \in BOOLEAN :
       /\ stats' = updateStats(stats, rq[i].name, ok, now - rq[i].startTime)
       /\ rq' = [rq EXCEPT ![i].st = "done",
                           ![i].startTime = 0,
                           ![i].reply = IF ok THEN [kind |-> "result", tool |-> rq[i].name]
                                        ELSE Thrown(ErrUpstream)]
  /\ UNCHANGED <<now, wconfig, wpc, connected, headers, granted>>
  /\ UNCHANGED oauthVars

\* time passes while the wrapper serves, one token lifetime at a time
WrapperTick ==
  /\ wpc = "running"
  /\ now + 301 * MsPerSecond \in TimePoints
  /\ now' = now + 301 * MsPerSecond
  /\ UNCHANGED wrapVars
  /\ UNCHANGED oauthVars

WrapperNext ==
  \/ WrapperStart
  \/ AuthorizeReturns
  \/ UpstreamConnect
  \/ ServerConnect
  \/ \E i \in Requests : ToolsList(i)
  \/ \E i \in Requests : ListAnswer(i)
  \/ \E i \in Requests : ToolsCall(i)
  \/ \E i \in Requests : CallAnswer(i)
  \/ WrapperTick

WrapperSpec == WrapperInit /\ [][WrapperNext]_vars

\* ================================================================== claims
\* steps that start a public call
AuthorizeCalled == pc = "idle" /\ calls' = calls + 1 /\ obs'.op = "authorize"
GetAccessTokenCalled == pc = "idle" /\ calls' = calls + 1 /\ obs'.op = "getAccessToken"

\* C1: when the session file holds a record with a token set and an expiry
\* in the future, every authorize() call returns that record's access token
\* in the calling step itself: no request is sent, no listener is started,
\* and the file is left as it was.
C1_CacheHit ==
  [][(/\ AuthorizeCalled
      /\ disk.kind = "json"
      /\ disk.value.tokens # NoTokens
      /\ disk.value.expiresAt > now)
     => (/\ result' = Returned(disk.value.tokens.access_token, "saved-session")
         /\ pc' = "idle"
         /\ req' = NoReq
         /\ att' = att
         /\ srv' = srv
         /\ disk' = disk)]_vars

\* a repeated authorize() call has returned the token of an unexpired record
C1_Witness ==
  /\ calls >= 2
  /\ obs.op = "authorize"
  /\ disk.kind = "json"
  /\ disk.value.tokens # NoTokens
  /\ disk.value.expiresAt > now
  /\ result = Returned(disk.value.tokens.access_token, "saved-session")
  /\ obs.disk0 = disk

\* a record that parses but lacks clientInfo, tokens or tokens.access_token
IsPartial(file) ==
  /\ file.kind = "json"
  /\ \/ file.value.clientInfo = NoClient
     \/ file.value.tokens = NoTokens
     \/ file.value.tokens.access_token = 0

\* C2 (as claimed): a token that getAccessToken() returns after its refresh
\* failed comes from the code exchange of a full authorization, and is not
\* the access token the session held when the call started.
C2_RefreshFallbackIsFull ==
  (/\ obs.op = "getAccessToken"
   /\ obs.refresh = "failed"
   /\ obs.held # 0
   /\ ~IsPartial(obs.disk0)
   /\ result.kind = "token")
    => (result.via = "exchange" /\ result.token # obs.held)

\* C3 (as claimed): an authorize() call that found a partial record has,
\* once it ended, gone through discovery (it did not take the fast path),
\* and a token it returned is an exchanged one.
C3_PartialRecordIsAbsent ==
  (obs.op = "authorize" /\ IsPartial(obs.disk0) /\ pc = "idle")
    => (obs.disc # "none" /\ (result.kind = "token" => result.via = "exchange"))

\* C4: getAccessToken() with a held session of expiry E, called at t, tries a
\* refresh exactly when t >= E - 300 s; otherwise it returns the cached
\* access token in the calling step, without a request and without touching
\* the session file.
C4_RefreshBoundary ==
  [][(GetAccessTokenCalled /\ session # NoSession /\ session.expiresAt # 0)
     => IF now >= session.expiresAt - 300000
        THEN /\ obs'.refresh \in {"sent", "failed"}
             /\ obs'.refresh = "sent" => (pc' = "refresh" /\ req'.kind = "refresh")
        ELSE /\ obs'.refresh = "none"
             /\ pc' = "idle"
             /\ req' = NoReq
             /\ disk' = disk
             /\ session' = session
             /\ HasTokens(session) => result' = Returned(session.tokens.access_token, "cache")]_vars

\* a refresh request was sent for a session that expires in exactly 300 s
C4_Witness ==
  /\ obs.op = "getAccessToken"
  /\ pc = "refresh"
  /\ req.kind = "refresh"
  /\ session.expiresAt = now + 300000

\* C5 (as claimed): once the callback wait of the attempt that bound the
\* listener has ended, by a callback or by the timeout, the listener's close
\* is scheduled (server.close() is what frees the port for the next attempt).
C5_ListenerReleased == srv.owner = "stale" => srv.closeAt # 0

\* C6 (as claimed): a callback wait that has ended, ended with a code, with
\* an authorization-denied error, or with the timeout; there is no other
\* outcome.
C6_ThreeOutcomes == obs.wait \in {"none", "code", "denied", "timeout"}

\* C6: a callback wait that has ended, ended in one of four ways, decided by
\* the first callback or by the timer: an error parameter fails the call with
\* 'Authorization failed' carrying that parameter (whether or not a code came
\* with it); a code without an error parameter resolves the wait; a callback
\* with neither fails the call with 'Invalid callback: missing code'; no
\* callback for 300 s fails the call with 'Authorization timeout'.
C6_WaitOutcomes ==
  /\ obs.wait \in {"none", "code", "denied", "invalid", "timeout"}
  /\ obs.wait = "code" => (obs.cb.code # "" /\ obs.cb.error = "")
  /\ obs.wait = "denied" =>
       (obs.cb.error # "" /\ result = Thrown(Err("Authorization failed", obs.cb.error)))
  /\ obs.wait = "invalid" =>
       (obs.cb = NoQuery /\ result = Thrown(Err("Invalid callback: missing code", "")))
  /\ obs.wait = "timeout" =>
       (obs.waited >= 300000 /\ result = Thrown(Err("Authorization timeout", "")))

\* a callback that carried neither a code nor an error has failed the call
C6_Witness ==
  /\ obs.wait = "invalid"
  /\ obs.cb = NoQuery
  /\ result = Thrown(ErrInvalidCallback)

\* C7 (as claimed): the listener of an attempt handles at most one request
\* to /callback.
C7_OneCallbackHandled == srv.handled <= 1

\* the fallback endpoints, from the scheme and the host of the server URL
FallbackEndpoint(p) == [scheme |-> ServerUrl.scheme, host |-> ServerUrl.host, path |-> <<p>>]

\* C8: when the discovery request fails (network error, non-success status,
\* unparsable body) discoverMetadata() throws nothing and yields the fallback
\* metadata, and the call goes on with it: the registration request goes to
\* {base}/register, the browser is sent to {base}/authorize, and the code is
\* exchanged at {base}/token.
C8_FallbackMetadata ==
  [][/\ (pc = "discover" /\ obs'.disc = "failed") =>
          /\ metadata' = [authorization_endpoint |-> FallbackEndpoint("authorize"),
                          token_endpoint |-> FallbackEndpoint("token"),
                          registration_endpoint |-> FallbackEndpoint("register")]
          /\ result' = Pending
          /\ IF config.static
             THEN pc' = "wait" /\ att'.authUrl = FallbackEndpoint("authorize")
             ELSE pc' = "register" /\ req' = Req("register", FallbackEndpoint("register"))
     /\ (obs.disc = "failed" /\ pc = "register" /\ pc' = "wait") =>
          att'.authUrl = FallbackEndpoint("authorize")
     /\ (obs.disc = "failed" /\ pc = "wait" /\ pc' = "token") =>
          (req'.kind = "token" /\ req'.url = FallbackEndpoint("token"))]_vars

\* a call whose discovery failed has returned an exchanged token
C8_Witness ==
  /\ obs.disc = "failed"
  /\ metadata.token_endpoint = FallbackEndpoint("token")
  /\ result.kind = "token"
  /\ result.via = "exchange"

\* C9 (as claimed): the metadata discoverMetadata() has returned has an
\* authorization endpoint and a token endpoint.
C9_EndpointsDefined ==
  metadata # NoMetadata =>
    (metadata.authorization_endpoint # NoUrl /\ metadata.token_endpoint # NoUrl)

\* C10: when authorize() or getAccessToken() has failed, the session file is
\* what it was when the call started.
C10_FailureLeavesRecord ==
  (obs.op \in {"authorize", "getAccessToken"} /\ result.kind = "error")
    => disk = obs.disk0

\* a full authorization that found a record on disk has failed after the
\* callback wait, or at the code exchange
C10_Witness ==
  /\ obs.op \in {"authorize", "getAccessToken"}
  /\ obs.disc # "none"
  /\ obs.wait # "none"
  /\ result.kind = "error"
  /\ obs.disk0.kind = "json"
  /\ disk = obs.disk0

\* steps in which authorize() runs and loads the session file: a call of
\* authorize(), a getAccessToken() without a held session, and the fallback
\* of a refresh that failed before or after its request
LoadStep ==
  \/ AuthorizeCalled
  \/ GetAccessTokenCalled /\ (session = NoSession \/ obs'.refresh = "failed")
  \/ pc = "refresh" /\ obs'.refresh = "failed"

\* C11 (as claimed): loadSession() yields a session only when the file
\* parses and its stored expiry is strictly later than the current time.
C11_OnlyUnexpired ==
  [][(LoadStep /\ session' # NoSession)
     => (disk.kind = "json" /\ disk.value.expiresAt > now)]_vars

\* C11: loadSession() yields a session exactly when the file parses and
\* either stores no expiry or stores one strictly later than the current
\* time; it yields the parsed record itself.  At now = expiresAt or later,
\* and for a missing or unparsable file, it yields nothing and raises
\* nothing: authorize() goes on to discovery.
C11_LoadSession ==
  [][LoadStep =>
       IF disk.kind = "json" /\ (disk.value.expiresAt = 0 \/ disk.value.expiresAt > now)
       THEN session' = [kind |-> "session", clientInfo |-> disk.value.clientInfo,
                        tokens |-> disk.value.tokens, expiresAt |-> disk.value.expiresAt]
       ELSE session' = NoSession /\ pc' = "discover" /\ result' = Pending]_vars

\* a record was loaded at the very instant of its expiry and was discarded
C11_Witness ==
  /\ obs.op = "authorize"
  /\ obs.disk0.kind = "json"
  /\ obs.disk0.value.expiresAt = now
  /\ session = NoSession
  /\ pc = "discover"

\* C13 (as claimed): with static client credentials configured, no session
\* file holds them.
C13_StaticNeverPersisted ==
  (config.static /\ disk.kind = "json") =>
    /\ disk.value.clientInfo # StaticClient
    /\ disk.value.clientInfo.client_id # StaticClient.client_id
    /\ disk.value.clientInfo.client_secret # StaticClient.client_secret

\* C14 (as claimed): when discovery has been answered, a configured static
\* client is used as it is and no registration request is sent; without one,
\* and without a registration endpoint in the metadata, the call fails with
\* the registration-unsupported error, no registration request is sent and
\* no listener is started.
C14_StaticOrUnsupported ==
  [][(pc = "discover" /\ pc' # "discover") =>
       IF config.static
       THEN /\ pc' # "register"
            /\ sent'.register = 0
            /\ pc' = "wait" => att'.clientInfo = StaticClient
       ELSE metadata'.registration_endpoint = NoUrl =>
              /\ result' = Thrown(ErrRegistrationUnsupported)
              /\ sent'.register = 0
              /\ att' = att
              /\ srv' = srv]_vars

\* C15 (as claimed): when the registration endpoint has answered with a
\* non-success response, the call has failed with a registration failure
\* that carries the text of that response.
C15_RegistrationErrorText ==
  (obs.reg # NoAnswer /\ obs.reg.net /\ ~obs.reg.ok) =>
    (result.kind = "error" /\ result.error.detail = obs.reg.text)

\* the errors a full authorization throws
AuthorizationErrors ==
  {ErrRegistration, ErrTimeout, ErrInvalidCallback, ErrFetch, ErrTypeError}
  \cup {ErrDenied(q.error) : q \in CallbackQueries}
  \cup {ErrTokenExchange(r.text) : r \in TokenResponses(0)}

\* C16: a getAccessToken() whose refresh failed ends with an error only
\* when the authorize() it fell back to failed, and with that error: the
\* full authorization went at least through discovery and threw one of its
\* own errors, or authorize() threw on the record it had just reloaded.
C16_RefreshFailureAbsorbed ==
  (obs.op = "getAccessToken" /\ obs.refresh = "failed" /\ result.kind = "error") =>
    \/ obs.disc # "none" /\ result.error \in AuthorizationErrors
    \/ /\ obs.disc = "none"
       /\ result.error = ErrTypeError
       /\ session # NoSession
       /\ session.tokens = NoTokens

\* a refresh failed, the full authorization that followed failed as well,
\* and its error is the one the caller got
C16_Witness ==
  /\ obs.op = "getAccessToken"
  /\ obs.refresh = "failed"
  /\ obs.disc # "none"
  /\ sent.refresh = 1
  /\ result.kind = "error"
  /\ result.error \in AuthorizationErrors

\* a step that starts clearSession()
ClearSessionCalled == pc = "idle" /\ calls' = calls + 1 /\ obs'.op = "clearSession"

\* C17 (as claimed): clearSession() leaves no held session and no session
\* file, and raises nothing.
C17_ClearedCompletely ==
  [][ClearSessionCalled =>
       (session' = NoSession /\ disk' = [kind |-> "absent"] /\ result' = Void)]_vars

\* C17: clearSession() leaves no held session and raises nothing, whether or
\* not a session file exists; the file is removed, or is left as it was when
\* removing it fails (which is only logged); a missing file stays missing.
\* A second clearSession() in a row changes nothing more once the file is
\* gone, and an authorize() after a clearSession() that removed the file goes
\* to discovery.
C17_ClearSession ==
  [][/\ ClearSessionCalled =>
          /\ session' = NoSession
          /\ result' = Void
          /\ pc' = "idle" /\ req' = NoReq
          /\ disk' \in {[kind |-> "absent"], disk}
          /\ obs.op = "clearSession" => (session' = session /\ metadata' = metadata)
     /\ (AuthorizeCalled /\ obs.op = "clearSession" /\ disk.kind = "absent") =>
          (pc' = "discover" /\ session' = NoSession /\ sent'.discover = 1)]_vars

\* clearSession() was called with a session held and a record on disk, and
\* has dropped both
C17_Witness ==
  /\ obs.op = "clearSession"
  /\ obs.held # 0
  /\ obs.disk0.kind = "json"
  /\ disk = Absent
  /\ session = NoSession
  /\ result = Void

\* the manager's state as the state machine names it
MStateOf(p, s) ==
  CASE p = "crashed" -> "Down"
    [] p \in {"discover", "register", "wait", "token"} -> "Authorizing"
    [] p = "refresh" -> "Refreshing"
    [] OTHER -> IF s # NoSession THEN "Authorized" ELSE "NoSession"

\* a step of the manager itself: not the passing of time, a late callback or
\* the end of the process while no call is in progress, and not a crash
ManagerStep ==
  /\ ~(pc \in {"idle", "crashed"} /\ calls' = calls)
  /\ pc' # "crashed"

\* the transitions the state machine names
ClaimedMoves ==
  {<<"NoSession", "Authorizing">>, <<"Authorizing", "Authorized">>,
   <<"Authorized", "Refreshing">>, <<"Refreshing", "Authorized">>,
   <<"Refreshing", "Authorizing">>}

Reloaded(file, t) ==
  IF file.kind = "json" /\ (file.value.expiresAt = 0 \/ file.value.expiresAt > t)
  THEN [kind |-> "session", clientInfo |-> file.value.clientInfo,
        tokens |-> file.value.tokens, expiresAt |-> file.value.expiresAt]
  ELSE NoSession

C20_NoResend ==
  /\ \A k \in {"discover", "register", "token", "refresh"} : sent[k] <= 1
  /\ obs.op = "authorize" => sent.refresh = 0
  /\ obs.op \notin {"authorize", "getAccessToken"} => sent = Sent0
  /\ sent.register = 1 => sent.discover = 1
  /\ sent.token = 1 => sent.discover = 1

\* a refresh request failed, the one fallback authorization ran, its code
\* exchange failed, and the call ended with one request of each kind sent
C20_Witness ==
  /\ obs.op = "getAccessToken"
  /\ sent.refresh = 1
  /\ sent.discover = 1
  /\ sent.token = 1
  /\ pc = "idle"
  /\ result.kind = "error"
  /\ result.error \in {ErrTokenExchange(r.text) : r \in TokenResponses(0)} \cup {ErrFetch}

\* C12 (as claimed): what a loadSession() has read, with a saveSession()
\* of another call possibly in progress, is a complete record: the file as it
\* was before the calls, or a record one of the calls has saved.
C12_ReadsOldOrNew ==
  \A c \in Callers :
    cread[c] # NoRead =>
      cread[c] \in ConcInitFiles \cup {FileOf(ConcSession(d)) : d \in Callers}

\* C19 (as claimed): while the attempt of one call has its listener bound
\* and waits for its callback, no other call has an attempt of its own in
\* progress.
C19_OneAttempt ==
  \A c, d \in Callers :
    (c # d /\ cpc[c] = "wait") => cpc[d] \notin {"binding", "wait", "wait-unbound"}

\* C21: the code_verifier sent in the code-exchange request is the verifier
\* whose SHA-256 digest (method S256) was placed as code_challenge in the
\* authorization URL of the same attempt.
C21_VerifierMatchesChallenge ==
  pc = "token" =>
    /\ req.body.grant_type = "authorization_code"
    /\ req.body.code_verifier # NoVerifier
    /\ att.searchParams.code_challenge = [sha256 |-> req.body.code_verifier]
    /\ att.searchParams.code_challenge_method = "S256"

C21_Witness ==
  /\ pc = "token"
  /\ obs.wait = "code"
  /\ req.body.code_verifier = [random |-> <<2, 0>>]
  /\ att.searchParams.code_challenge = [sha256 |-> [random |-> <<2, 0>>]]

\* C22: each full authorization attempt generates a new verifier/challenge
\* pair that no other attempt uses, and once the attempt has ended the
\* verifier is neither in the persisted record nor in the manager's state.
NewManager == obs # IdleObs /\ obs' = IdleObs
AttemptStarts == att.verifier = NoVerifier /\ att'.verifier # NoVerifier
CallStarts == pc = "idle" /\ calls' = calls + 1
C22_FreshVerifier ==
  [][/\ calls' >= calls
     /\ drawn' # drawn => (IF CallStarts \/ NewManager THEN drawn' = 0 ELSE drawn' = drawn + 1)
     /\ AttemptStarts =>
          /\ att'.verifier.random = <<calls, drawn>>
          /\ calls' = calls /\ calls >= 1
          /\ drawn' = drawn + 1
          /\ att'.searchParams.code_challenge = [sha256 |-> att'.verifier]
     /\ (att.verifier # NoVerifier /\ att'.verifier # NoVerifier) => att'.verifier = att.verifier
     /\ pc' \in {"idle", "crashed"} =>
          /\ att'.verifier = NoVerifier
          /\ req'.body = NoBody
          /\ session' # NoSession => DOMAIN session' = {"kind", "clientInfo", "tokens", "expiresAt"}
          /\ disk'.kind = "json" => DOMAIN disk'.value = {"clientInfo", "tokens", "expiresAt"}]_vars

\* a second authorization, after the one that obtained token 2, has ended
\* with its session saved
C22_Witness ==
  /\ calls = 2
  /\ drawn = 1
  /\ pc = "idle"
  /\ result = Returned(3, "exchange")
  /\ sent.token = 1
  /\ disk = FileOf(session)
  /\ att.verifier = NoVerifier

\* C23: after a successful refresh getAccessToken() returns the new access
\* token, and both the in-memory session and the persisted record hold the
\* new token set with the expiry recomputed from the new expires_in at the
\* time of the refresh; the client credentials are unchanged.
RefreshSucceeds == pc = "refresh" /\ obs'.refresh = "ok"
RefreshedSession(b) ==
  /\ session'.tokens = b
  /\ session'.expiresAt = (IF b.expires_in # 0 THEN now + b.expires_in * MsPerSecond ELSE 0)
  /\ session'.clientInfo = session.clientInfo
  /\ pc' = "idle"
  /\ result' = Returned(b.access_token, "refresh")
C23_RefreshUpdatesBoth ==
  [][RefreshSucceeds =>
       \E b \in TokenBodies(nextTok) :
         /\ RefreshedSession(b)
         /\ disk' = FileOf(session')]_vars

\* C23 as the code has it: the record holds the new token set when the write
\* succeeds; a failed write is only logged and leaves the record as it was
\* or incomplete.
C23_RefreshUpdates ==
  [][RefreshSucceeds =>
       \E b \in TokenBodies(nextTok) :
         /\ RefreshedSession(b)
         /\ disk' \in {FileOf(session'), disk, Garbage}]_vars

C23_Witness ==
  /\ pc = "idle"
  /\ obs.op = "getAccessToken"
  /\ obs.refresh = "ok"
  /\ session # NoSession
  /\ result = Returned(session.tokens.access_token, "refresh")
  /\ session.tokens.access_token = nextTok - 1
  /\ session.expiresAt = now + 301 * MsPerSecond
  /\ disk = FileOf(session)

\* C24: the location of the session record is a function of server URL and
\* config directory alone, so a new manager constructed with the same two
\* finds the record its predecessor persisted: its authorize() returns that
\* session's token with no network activity while the session is unexpired.
PersistedThisRun(file) ==
  /\ file.kind = "json"
  /\ file.value.tokens # NoTokens
  /\ file.value.tokens.access_token >= 2
C24_SessionSurvivesRestart ==
  [][/\ NewManager => (disk' = disk /\ session' = NoSession)
     /\ (/\ AuthorizeCalled
         /\ obs = IdleObs
         /\ PersistedThisRun(disk)
         /\ (disk.value.expiresAt = 0 \/ disk.value.expiresAt > now))
        => (/\ result' = Returned(disk.value.tokens.access_token, "saved-session")
            /\ pc' = "idle"
            /\ sent' = Sent0
            /\ req' = NoReq
            /\ srv' = srv
            /\ disk' = disk)]_vars

C24_Witness ==
  /\ obs.op = "authorize"
  /\ obs.disk0 = disk
  /\ PersistedThisRun(disk)
  /\ metadata = NoMetadata
  /\ result = Returned(disk.value.tokens.access_token, "saved-session")
  /\ sent = Sent0

\* C25: the authorization request carries a state parameter and a callback
\* is accepted only when it returns that state, so a callback that did not
\* originate from the attempt's authorization request never leads to a
\* token exchange.
C25_ForgedCallbackRejected ==
  pc = "token" =>
    /\ obs.cb # ForgedQuery
    /\ req.body.code # ForgedQuery.code

\* C26: OAuth endpoints must use HTTPS except on localhost: the manager
\* never sends a registration, token or refresh request to, nor opens the
\* browser at, an endpoint that is neither HTTPS nor on localhost.
HttpsOrLocalhost(url) == url.scheme = "https" \/ url.host = "localhost"
C26_HttpsOnly ==
  /\ req.kind \in {"register", "token", "refresh"} => HttpsOrLocalhost(req.url)
  /\ (pc = "wait" /\ att.lstn = "listening") => HttpsOrLocalhost(att.authUrl)

\* C27: in OAuth mode the token is checked before upstream requests and
\* refreshed before it expires, so the bearer token attached to an upstream
\* request is never one whose recorded expiry has passed.
C27_BearerRefreshed ==
  \A i \in Requests :
    (wconfig.authMode = "oauth" /\ rq[i].st = "forwarded") =>
      (granted.expiresAt = 0 \/ rq[i].startTime < granted.expiresAt)

\* C28: tools/list returns exactly the upstream list when allowedTools is
\* empty, and otherwise exactly the upstream tools whose name is in
\* allowedTools, in upstream order and with nothing added.
AllowedAt(tools, allowedTools) ==
  {k \in 1..Len(tools) : \E j \in 1..Len(allowedTools) : allowedTools[j] = tools[k].name}
NthOf(S, n) == CHOOSE x \in S : Cardinality({y \in S : y < x}) = n - 1
Listed(i) == rq[i].method = "tools/list" /\ rq[i].st = "done" /\ rq[i].reply.kind = "tools"
C28_ListIsFiltered ==
  \A i \in Requests :
    Listed(i) =>
      LET up == rq[i].upstream
          out == rq[i].reply.tools
          at == AllowedAt(up, wconfig.allowedTools) IN
      IF wconfig.allowedTools = << >>
      THEN out = up
      ELSE /\ Len(out) = Cardinality(at)
           /\ \A n \in 1..Len(out) : out[n] = up[NthOf(at, n)]

C28_Witness ==
  \E i \in Requests :
    /\ Listed(i)
    /\ wconfig.allowedTools = <<"delete", "search", "read">>
    /\ rq[i].upstream = <<Tool("read"), Tool("write"), Tool("delete")>>
    /\ rq[i].reply.tools = <<Tool("read"), Tool("delete")>>

\* C29: with a non-empty allowedTools a tools/call for a name not in it
\* fails with 'not allowed' and is never forwarded upstream; a call for an
\* allowed name, or for any name when allowedTools is empty, is forwarded
\* exactly once.
InAllowList(name) == \E j \in 1..Len(wconfig.allowedTools) : wconfig.allowedTools[j] = name
C29_CallsGated ==
  \A i \in Requests :
    rq[i].method = "tools/call" =>
      IF wconfig.allowedTools # << >> /\ ~InAllowList(rq[i].name)
      THEN /\ rq[i].forwards = 0
           /\ rq[i].st = "done"
           /\ rq[i].reply = Thrown(Err("Tool is not allowed", rq[i].name))
      ELSE /\ rq[i].forwards = 1
           /\ rq[i].st \in {"forwarded", "done"}
           /\ rq[i].st = "done" => rq[i].reply # Thrown(Err("Tool is not allowed", rq[i].name))

C29_Witness ==
  /\ wconfig.allowedTools = <<"read">>
  /\ rq[1].method = "tools/call" /\ rq[1].name = "write"
  /\ rq[1].forwards = 0 /\ rq[1].reply = Thrown(Err("Tool is not allowed", "write"))
  /\ rq[2].method = "tools/call" /\ rq[2].name = "read"
  /\ rq[2].forwards = 1 /\ rq[2].st = "done" /\ rq[2].reply.kind = "result"

\* C30: in a full authorization the steps occur in the order discovery,
\* client registration or reuse of a held client, challenge generation,
\* listener wait, code exchange, session save, return; the code-exchange
\* request is sent only after a callback carrying a code was received, and
\* the session is written only after the code exchange succeeded.
Enters(p) == pc # p /\ pc' = p
C30_StepOrder ==
  [][/\ Enters("discover") =>
          /\ pc \in {"idle", "refresh"}
          /\ sent'.discover = 1 /\ sent'.register = 0 /\ sent'.token = 0
          /\ obs'.disc = "none" /\ obs'.wait = "none"
     /\ Enters("register") =>
          /\ pc = "discover"
          /\ ~config.static
          /\ obs'.disc # "none"
          /\ sent'.register = 1 /\ sent'.token = 0
     /\ Enters("wait") =>
          /\ obs'.disc # "none"
          /\ \/ pc = "discover" /\ config.static /\ att'.clientInfo = StaticClient
             \/ pc = "register" /\ sent.register = 1 /\ att'.clientInfo = obs'.reg.body
          /\ drawn' = drawn + 1
          /\ att'.searchParams.code_challenge = [sha256 |-> att'.verifier]
          /\ att'.lstn = "binding"
          /\ srv' = srv
          /\ sent'.token = 0
     /\ Enters("token") =>
          /\ pc = "wait"
          /\ att.lstn = "listening" \/ srv.owner # "none"
          /\ obs'.wait = "code"
          /\ obs'.cb.code # "" /\ obs'.cb.error = ""
          /\ req'.body.code = obs'.cb.code
          /\ sent'.token = 1
          /\ disk' = disk /\ session' = session
     /\ (disk' # disk /\ pc \notin {"idle", "refresh"}) =>
          /\ pc = "token"
          /\ sent.token = 1
          /\ pc' = "idle"
          /\ result' = Returned(session'.tokens.access_token, "exchange")
          /\ session'.tokens.access_token = nextTok
     /\ (pc # "idle" /\ pc' = "idle" /\ result'.kind = "token" /\ result'.via = "exchange") =>
          /\ pc = "token"
          /\ session' # session
          /\ disk' \in {FileOf(session'), disk, Garbage}]_vars

C30_Witness ==
  /\ pc = "idle"
  /\ obs.op = "authorize"
  /\ obs.disc = "ok"
  /\ obs.reg # NoAnswer
  /\ obs.wait = "code"
  /\ sent = [discover |-> 1, register |-> 1, token |-> 1, refresh |-> 0]
  /\ drawn = 1
  /\ session # NoSession
  /\ result = Returned(session.tokens.access_token, "exchange")
  /\ disk = FileOf(session)

\* C31: the browser is opened only after the callback listener is
\* listening, and a failure to open it does not end the attempt, which ends
\* only with a callback or the timeout.
C31_OpenAfterListening ==
  /\ (pc = "wait" /\ obs.open # "none") => att.lstn = "listening"
  /\ (pc = "idle" /\ obs.open # "none") => obs.wait # "none"

\* C32: a manager that holds a session taken from the session file and has
\* never fetched the server metadata sends no refresh request: a
\* getAccessToken() call within five minutes of the expiry goes to
\* authorize(), which returns the stored access token again as long as the
\* record in the file has not expired, and starts the full flow once it has.
FromSavedSession ==
  /\ session # NoSession
  /\ HasTokens(session)
  /\ metadata = NoMetadata
NewTokenSet ==
  /\ pc \in {"token", "refresh"}
  /\ result' # result
  /\ result'.kind = "token"
  /\ result'.via \in {"exchange", "refresh"}
C33_NoExpiryNeverRefreshed ==
  [][/\ (NewTokenSet /\ session'.tokens.expires_in = 0) =>
          /\ session'.expiresAt = 0
          /\ disk' \in {FileOf(session'), disk, Garbage}
          /\ \A t \in TimePoints : loadSession(FileOf(session'), t) = session'
     /\ (GetAccessTokenCalled /\ session # NoSession /\ session.expiresAt = 0) =>
          /\ obs'.refresh = "none"
          /\ sent'["refresh"] = 0
          /\ pc' = "idle"
          /\ session' = session
          /\ HasTokens(session) => result' = Returned(session.tokens.access_token, "cache")]_vars

C33_Witness ==
  /\ obs.op = "getAccessToken"
  /\ obs.refresh = "none"
  /\ pc = "idle"
  /\ session # NoSession
  /\ HasTokens(session)
  /\ session.tokens.access_token >= 2
  /\ session.tokens.expires_in = 0
  /\ session.expiresAt = 0
  /\ result = Returned(session.tokens.access_token, "cache")
  /\ now >= StartMs + CallbackTimeoutMs
  /\ loadSession(disk, now) = session

\* C34: when the session file cannot be written after a successful code
\* exchange or a successful refresh, the call still returns the new access
\* token and the held session has the new token set; nothing is thrown.
WriteFails ==
  /\ pc \in {"token", "refresh"}
  /\ nextTok' = nextTok + 1
  /\ disk' # FileOf(session')
C34_WriteFailureNotSurfaced ==
  [][WriteFails =>
       /\ disk' \in {disk, Garbage}
       /\ session'.tokens \in TokenBodies(nextTok)
       /\ pc' = "idle"
       /\ result' = Returned(nextTok, IF pc = "token" THEN "exchange" ELSE "refresh")]_vars

\* neither the write of authorize() nor the write after the refresh succeeded
C34_Witness ==
  /\ obs.op = "getAccessToken"
  /\ obs.refresh = "ok"
  /\ disk = Absent
  /\ session # NoSession
  /\ session.tokens.access_token = 3
  /\ result = Returned(3, "refresh")

\* C35: after a successful refresh the held token set is the token set of
\* the response, refresh token included: when the response has none the
\* session has none, and a getAccessToken() call within five minutes of the
\* expiry of a session without refresh token sends no refresh request and
\* runs authorize().
C35_RefreshTokenDropped ==
  [][/\ RefreshSucceeds =>
          /\ session'.tokens \in TokenBodies(nextTok)
          /\ result' = Returned(nextTok, "refresh")
     /\ (/\ GetAccessTokenCalled
         /\ session # NoSession
         /\ HasTokens(session)
         /\ session.tokens.refresh_token = 0
         /\ NeedsRefresh(session, now))
        => /\ obs'.refresh = "failed"
           /\ pc' # "refresh"
           /\ sent'["refresh"] = 0
           /\ session' = loadSession(disk, now)
           /\ IF session' # NoSession
              THEN result' = Returned(session'.tokens.access_token, "saved-session")
              ELSE pc' = "discover"]_vars

\* the call after a refresh whose response had no refresh_token
C35_Witness ==
  /\ calls = 2
  /\ obs.op = "getAccessToken"
  /\ obs.held = 3
  /\ obs.refresh = "failed"
  /\ sent["refresh"] = 0
  /\ session # NoSession
  /\ session.tokens.refresh_token = 0
  /\ result = Returned(3, "saved-session")

\* C36: once the timeout of an attempt has fired, the call has ended with
\* the timeout error without a code-exchange request and without a session,
\* and a callback the attempt's server receives afterwards changes nothing
\* but the server: no request is sent, and neither the session nor the file
\* nor the result of the call changes, whatever the callback carries.
CallbackArrives == srv'.handled = srv.handled + 1
C36_LateCallbackIgnored ==
  [][/\ (CallbackArrives /\ srv.owner = "stale") =>
          /\ UNCHANGED <<pc, req, result, sent, session, disk, att, nextTok, obs>>
          /\ srv'.owner = "stale"
     /\ obs'.wait = "timeout" =>
          /\ pc' = "idle"
          /\ result' = Thrown(ErrTimeout)
          /\ sent'["token"] = 0
          /\ session' = NoSession
          /\ disk' = disk]_vars

\* a callback has arrived after the attempt of the call timed out
C36_Witness ==
  /\ obs.wait = "timeout"
  /\ result = Thrown(ErrTimeout)
  /\ srv.owner = "stale"
  /\ srv.handled >= 1
  /\ sent["token"] = 0
  /\ session = NoSession

\* C37: whenever authorize() or getAccessToken() returns an access token, it
\* is the access token of the held session, and that session has no expiry
\* or an expiry later than the time of the call's check: a token whose
\* recorded expiry has passed is never returned.
TokenReturned ==
  /\ pc' = "idle"
  /\ result'.kind = "token"
  /\ pc # "idle" \/ calls' = calls + 1
C37_ReturnedTokenUnexpired ==
  [][TokenReturned =>
       /\ session' # NoSession
       /\ HasTokens(session')
       /\ session'.tokens.access_token = result'.token
       /\ session'.expiresAt = 0 \/ session'.expiresAt > now
       /\ now' = now]_vars

\* a refresh five minutes or more after the start returned a token that
\* expires later
C37_Witness ==
  /\ obs.op = "getAccessToken"
  /\ obs.held # 0
  /\ result.kind = "token"
  /\ result.via = "refresh"
  /\ session # NoSession
  /\ session.tokens.access_token = result.token
  /\ session.expiresAt > now
  /\ now >= StartMs + CallbackTimeoutMs

\* C38: in OAuth mode start() begins to connect upstream only in the step
\* in which authorize() returned a token, with the Authorization header set
\* to Bearer of that token whatever header was configured; every request
\* forwarded upstream carries that header; when authorize() fails, start()
\* fails with nothing connected, and a failed start() connects nothing
\* afterwards.
OAuthMode == wconfig.authMode = "oauth"
C38_ConnectAfterAuthorize ==
  [][/\ (OAuthMode /\ wpc' = "connect") =>
          /\ wpc \in {"authorize", "connect"}
          /\ granted' # NoGrant
          /\ headers' = [Authorization |-> Bearer(granted'.access_token)]
          /\ connected' = {}
     /\ (OAuthMode /\ connected' # {}) =>
          /\ granted' # NoGrant
          /\ headers' = [Authorization |-> Bearer(granted'.access_token)]
          /\ "upstream" \in connected'
     /\ OAuthMode =>
          \A i \in Requests :
            rq'[i].forwards > 0 => rq'[i].authorization = Bearer(granted'.access_token)
     /\ (OAuthMode /\ wpc = "authorize" /\ granted' = NoGrant) =>
          /\ wpc' = "failed"
          /\ connected' = {}
     /\ wpc = "failed" => (wpc' = "failed" /\ connected' = connected)]_vars

\* an OAuth-mode wrapper with a configured Authorization header is running
\* with the token of authorize()
C38_Witness ==
  /\ OAuthMode
  /\ wconfig.headers = ConfiguredHeaders
  /\ wpc = "running"
  /\ connected = {"upstream", "stdio"}
  /\ granted.access_token = 2
  /\ headers.Authorization = Bearer(2)
  /\ \E i \in Requests : rq[i].forwards > 0 /\ rq[i].authorization = Bearer(2)

\* C39: for every tool, callCount = successCount + errorCount and callCount
\* is the number of forwarded tools/call requests for it that were answered
\* (successes and errors counted by their replies); no counter decreases
\* and no entry is removed; the answer to a forwarded call adds one to the
\* callCount of its tool and changes no other entry; a step that refuses a
\* call by the allow-list, or forwards one, changes no statistics.
Answered(n) ==
  {i \in Requests : rq[i].method = "tools/call" /\ rq[i].name = n
                    /\ rq[i].forwards > 0 /\ rq[i].st = "done"}
Succeeded(n) == {i \in Answered(n) : rq[i].reply.kind = "result"}
StatsConsistent ==
  /\ \A n \in DOMAIN stats :
       /\ stats[n].name = n
       /\ stats[n].callCount = stats[n].successCount + stats[n].errorCount
       /\ stats[n].callCount = Cardinality(Answered(n))
       /\ stats[n].successCount = Cardinality(Succeeded(n))
  /\ \A n \in CalledNames : n \notin DOMAIN stats => Answered(n) = {}
CallAnswered(i) == rq[i].method = "tools/call" /\ rq[i].st = "forwarded" /\ rq'[i].st = "done"
C39_StatsCount ==
  [][/\ StatsConsistent
     /\ StatsConsistent'
     /\ \A n \in DOMAIN stats :
          /\ n \in DOMAIN stats'
          /\ stats'[n].callCount >= stats[n].callCount
          /\ stats'[n].successCount >= stats[n].successCount
          /\ stats'[n].errorCount >= stats[n].errorCount
          /\ stats'[n].totalDuration >= stats[n].totalDuration
     /\ \A i \in Requests :
          CallAnswered(i) =>
            /\ stats'[rq[i].name].callCount
                 = (IF rq[i].name \in DOMAIN stats THEN stats[rq[i].name].callCount ELSE 0) + 1
            /\ \A n \in DOMAIN stats : n # rq[i].name => stats'[n] = stats[n]
            /\ DOMAIN stats' = DOMAIN stats \cup {rq[i].name}
     /\ (\A i \in Requests : ~CallAnswered(i)) => stats' = stats
     /\ \A i \in Requests :
          (rq[i].st = "new" /\ rq'[i].st = "done") =>
            /\ rq'[i].reply = Thrown(ErrNotAllowed(rq'[i].name))
            /\ rq'[i].forwards = 0
            /\ stats' = stats]_vars

\* two calls of one tool overlapped: the second was answered, with an
\* error, while the first is still forwarded
C39_Witness ==
  /\ rq[1].method = "tools/call"
  /\ rq[1].st = "forwarded"
  /\ rq[2].method = "tools/call"
  /\ rq[2].st = "done"
  /\ rq[2].forwards > 0
  /\ rq[2].name = rq[1].name
  /\ rq[2].reply = Thrown(ErrUpstream)
  /\ rq[1].name \in DOMAIN stats
  /\ stats[rq[1].name].callCount = 1
  /\ stats[rq[1].name].errorCount = 1

====
